---------------------------- MODULE Spec2Model ----------------------------
(***************************************************************************)
(* progpick: brace-pattern expansion.                                      *)
(*                                                                         *)
(* A pattern string is tokenized (tokens::parse), the tokens are built     *)
(* into a tree of fragments (Pattern::from_str) and the tree is enumerated *)
(* (Pattern::next, Pattern::bump, Pattern::count).                         *)
(*                                                                         *)
(* Characters are modelled by their Unicode scalar values and strings by   *)
(* sequences of characters.                                                *)
(***************************************************************************)
EXTENDS Integers, Sequences, FiniteSets, TLC

(***************************************************************************)
(* Characters of the grammar (tokens.rs match arms).                       *)
(***************************************************************************)
LBrace == 123
RBrace == 125
Comma == 44
Dot == 46
Backslash == 92

\* Largest value of the u8 nesting counter in_switch.
U8Max == 255
Newline == 10

\* usize, the type count() computes in, on a 64-bit target: WordLimbs limbs
\* of one byte, the limb of least weight first.
WordLimbs == 8
LimbBase == 256

\* `c as u32` for the characters the inputs are written with.
Ord ==
  [a |-> 97, b |-> 98, c |-> 99, d |-> 100, x |-> 120, y |-> 121, z |-> 122,
   zero |-> 48, nine |-> 57, eacute |-> 233]

\* char::len_utf8
len_utf8(c) ==
  IF c < 128 THEN 1 ELSE IF c < 2048 THEN 2 ELSE IF c < 65536 THEN 3 ELSE 4

\* str::as_bytes().len()
RECURSIVE ByteLen(_)
ByteLen(s) ==
  IF s = <<>> THEN 0 ELSE len_utf8(Head(s)) + ByteLen(Tail(s))

(***************************************************************************)
(* Bounds of the model.                                                    *)
(***************************************************************************)
\* Every string over Alphabet of at most MaxLen characters is an input.
MaxLen == 5

\* Longest pattern argument of the program that is enumerated exhaustively.
MaxArgLen == 2

Alphabet == {LBrace, RBrace, Comma, Dot, Backslash, Ord.a, Ord.b}

Strings(n) == UNION {[1..k -> Alphabet] : k \in 0..n}

\* The patterns of the repository's tests (pattern.rs and tokens.rs, mod test)
\* and further patterns longer than MaxLen.
TestInputs ==
  LET a == Ord.a  b == Ord.b  c == Ord.c  d == Ord.d
      x == Ord.x  y == Ord.y  z == Ord.z
      L == LBrace R == RBrace K == Comma P == Dot E == Backslash
  IN { <<a, b, c>>,
       <<a, b, c, L, x, K, y, K, z, R>>,
       <<a, b, c, L, x, K, L, y, K, z, R, R>>,
       <<L, L, L, a, K, b, K, c, R, K, x, R, K, y, R>>,
       <<a, b, c, L, x, L, y, K, z, R, R>>,
       <<a, L, b, K, c, L, x, K, y, R, K, d, R>>,
       <<L, x, K, y, K, z, R, L, x, K, y, K, z, R>>,
       <<L, a, R, L, a, R>>,
       <<L, a, R, L, a, R, L, a, R>>,
       <<L, L, a, P, P, b, R, K, R, x>>,
       <<L, L, a, P, P, b, R, K, K, R, x>>,
       <<a, b, c, L, x, K, y, K, R>>,
       <<a, b, c, L, K, x, K, y, R>>,
       <<a, b, c, L, x, K, K, y, R>>,
       <<L, Ord.zero, P, P, Ord.nine, R>>,
       <<L, Ord.zero, Ord.zero, P, P, Ord.zero, Ord.zero, R>>,
       <<L, a, P, P, b, R>>,
       <<L, a, P, P, c, R>>,
       <<L, b, P, P, a, R>>,
       <<L, a, P, P, a, R>>,
       <<L, a, P, P, E, b, R>>,
       <<L, E, a, P, P, b, R>>,
       <<L, a, P, P, b, c, R>>,
       <<L, a, b, P, P, c, R>>,
       <<L, a, P, P, Ord.eacute, R>>,
       <<L, Ord.eacute, P, P, a, R>>,
       <<L, x, K, a, P, P, c, R>>,
       <<L, L, x, R, a, P, P, c, R>>,
       <<L, a, P, P, b, R, L, a, P, P, c, R>>,
       <<L, a, K, L, b, K, c, R, R, L, x, K, y, R>>,
       <<E, L, a, E, K, b, E, R, L, E, P, E, P, K, E, E, R>> }

\* Patterns that open U8Max + 1 groups, unclosed and closed: the depths the
\* counter in_switch: u8 cannot hold.
DeepInputs ==
  LET opens == [i \in 1..(U8Max + 1) |-> LBrace]
  IN {opens, opens \o [i \in 1..(U8Max + 1) |-> RBrace]}

Inputs == Strings(MaxLen) \cup TestInputs \cup DeepInputs

\* The pattern arguments the program is run with.
MainInputs == TestInputs \cup Strings(MaxArgLen)

\* Patterns of 19 and 20 groups {0..9}, and of 20 such groups followed by {}:
\* 10^19 combinations fit in usize, 10^20 do not.
WideInputs ==
  LET group == <<LBrace, Ord.zero, Dot, Dot, Ord.nine, RBrace>>
      Groups(n) == [i \in 1..(6 * n) |-> group[((i - 1) % 6) + 1]]
  IN {Groups(19), Groups(20), Groups(20) \o <<LBrace, RBrace>>}

\* The pattern arguments the program is run with to print their count.
CountInputs == TestInputs \cup Strings(MaxArgLen) \cup WideInputs

(***************************************************************************)
(* Tokens (tokens.rs, enum Token).                                         *)
(***************************************************************************)
TokChunk(s) == [type |-> "Chunk", text |-> s]
TokSwitchOpen == [type |-> "SwitchOpen"]
TokSwitchClose == [type |-> "SwitchClose"]
TokSwitchNext == [type |-> "SwitchNext"]

(***************************************************************************)
(* Fragments (pattern.rs, enum Fragment, struct Switch, struct Pattern).   *)
(***************************************************************************)
FragChunk(s) == [kind |-> "Chunk", text |-> s]
FragSwitch(sw) == [kind |-> "Switch", switch |-> sw]

\* Switch::new
SwitchNew == [options |-> <<>>, ctr |-> 0, write_cursor |-> 0]

\* impl From<Vec<Vec<Fragment>>> for Switch
SwitchFrom(options) == [options |-> options, ctr |-> 0, write_cursor |-> 0]

\* impl From<Vec<Fragment>> for Pattern
PatternFrom(fragments) == [fragments |-> fragments, first |-> TRUE, done |-> FALSE]

\* No pattern: from_str has not returned Ok.
NoPattern == [unbuilt |-> TRUE]

\* Trees handed to Pattern::from directly, as the tests of pattern.rs do:
\* trees from_str also builds, and trees with options that hold no fragment,
\* which from_str never builds.
HandTrees ==
  LET Ca == FragChunk(<<Ord.a>>)
      Cb == FragChunk(<<Ord.b>>)
      Cc == FragChunk(<<Ord.c>>)
      Cx == FragChunk(<<Ord.x>>)
      Sw(options) == FragSwitch(SwitchFrom(options))
  IN { <<>>,
       <<Sw(<<>>)>>,
       <<Sw(<< <<>> >>)>>,
       <<Sw(<< <<>>, <<Ca>> >>)>>,
       <<Sw(<< <<Ca>>, <<>> >>), Sw(<< <<>>, <<Cb>>, <<>> >>)>>,
       <<Sw(<< <<Sw(<< <<>>, <<Ca>> >>), Sw(<< <<Cb>>, <<Cc>> >>)>>, <<>> >>), Cx>>,
       <<Sw(<< <<Sw(<<>>), Ca>>, <<Sw(<< <<>> >>)>> >>), Sw(<< <<Cx>>, <<>> >>)>>,
       <<Ca, Sw(<< <<Cb>>, <<Cc, Sw(<< <<Cx>>, <<Ca>> >>)>>, <<Cb>> >>)>>,
       <<Sw(<< <<Ca>>, <<Cb>>, <<Cc>> >>), Sw(<< <<Ca>>, <<Cb>>, <<Cc>> >>)>> }

VARIABLES
  origin,     \* how the pattern is made: "from_str" or "from" by a caller of
              \* the library, "main" by the program from its argument, "count"
              \* by the program run with --count
  input,      \* s: the pattern string
  pc,         \* "parse", "build", "iter", "err" (Err returned), "panic" (a
              \* panic of from_str), "overflow" (a panic of in_switch += 1),
              \* "permutate" (in the loop of permutate), "finished" (permutate
              \* returned Ok), "failed" (permutate returned the sink's Err),
              \* "count" (main is about to print the count), "printed" (it
              \* has), "count_overflow" (a panic of the arithmetic of count)
  pos,        \* number of characters iter has consumed
  tokens,     \* tokens pushed so far
  in_switch,  \* nesting depth counter (u8)
  escape,     \* the previous character was an unescaped backslash
  x,          \* the pending literal buffer
  err,        \* the message of the error returned, "" if none
  tpos,       \* number of tokens from_str has consumed
  switches,   \* from_str: stack of switches under construction
  fragments,  \* the top-level fragments: from_str's local while it builds,
              \* then the tree as handed to Pattern::from (all cursors 0)
  pattern,    \* the Pattern from_str returned
  out,        \* the caller's output buffer after the last call of next
  ret,        \* what the last call of next returned: "Some", "None", "" before
  yielded,    \* the texts next has appended, one per Some returned
  counted,    \* what the last call of count returned, as <<value>>; <<>> before
  written,    \* permutate: the byte strings handed to sink.write, in order
  status,     \* permutate: what the last sink.write returned, "" before
  feedback    \* permutate: the calls made on the Feedback, in order

vars ==
  <<origin, input, pc, pos, tokens, in_switch, escape, x, err, tpos, switches,
    fragments, pattern, out, ret, yielded, counted, written, status, feedback>>

tokVars == <<pos, tokens, in_switch, escape, x>>
buildVars == <<tpos, switches, fragments>>
iterVars == <<pattern, out, ret, yielded, counted>>
permVars == <<written, status, feedback>>

\* Pattern::from_str(input) is about to run.
InitFromStr ==
  /\ origin = "from_str"
  /\ input \in Inputs
  /\ pc = "parse"
  /\ fragments = <<>>
  /\ pattern = NoPattern

\* main is about to parse its pattern argument with Pattern::from_str.
InitMain ==
  /\ origin = "main"
  /\ input \in MainInputs
  /\ pc = "parse"
  /\ fragments = <<>>
  /\ pattern = NoPattern

\* main, run with --count, is about to parse its pattern argument.
InitCount ==
  /\ origin = "count"
  /\ input \in CountInputs
  /\ pc = "parse"
  /\ fragments = <<>>
  /\ pattern = NoPattern

\* Pattern::from(fragments) has returned.
InitFrom ==
  /\ origin = "from"
  /\ input = <<>>
  /\ pc = "iter"
  /\ fragments \in HandTrees
  /\ pattern = PatternFrom(fragments)

Init ==
  /\ InitFromStr \/ InitFrom \/ InitMain \/ InitCount
  /\ pos = 0
  /\ tokens = <<>>
  /\ in_switch = 0
  /\ escape = FALSE
  /\ x = <<>>
  /\ err = ""
  /\ tpos = 0
  /\ switches = <<>>
  /\ out = <<>>
  /\ ret = ""
  /\ yielded = <<>>
  /\ counted = <<>>
  /\ written = <<>>
  /\ status = ""
  /\ feedback = <<>>

(***************************************************************************)
(* tokens::parse, one action per arm of the match on the next character.   *)
(***************************************************************************)
\* iter.peek() after n characters have been consumed; 0 stands for None
\* (no input of the model holds the character NUL).
PeekAt(n) == IF n < Len(input) THEN input[n + 1] ELSE 0

\* The character iter.next() returns in the loop head.
Cur == input[pos + 1]

InLoop == pc = "parse" /\ pos < Len(input)

\* The pending buffer as a token, if it is not empty.
Flush(buf) == IF buf = <<>> THEN <<>> ELSE <<TokChunk(buf)>>

\* bail!(msg): parse returns Err and the tokens are dropped.
Bail(msg) ==
  /\ pc' = "err"
  /\ err' = msg
  /\ UNCHANGED <<origin, input, tokVars, buildVars, iterVars, permVars>>

\* The escape arm without `escape = false`.
TokEscapedKeepsFlag ==
  /\ pc = "parse" /\ pos < Len(input)
  /\ escape
  /\ x' = Append(x, input[pos + 1])
  /\ pos' = pos + 1
  /\ UNCHANGED <<origin, input, pc, tokens, in_switch, escape, err, buildVars, iterVars, permVars>>

\* c if escape => { x.push(c); escape = false; }
TokEscaped ==
  /\ InLoop
  /\ escape
  /\ x' = Append(x, Cur)
  /\ escape' = FALSE
  /\ pos' = pos + 1
  /\ UNCHANGED <<origin, input, pc, tokens, in_switch, err, buildVars, iterVars, permVars>>

\* '{' => flush, SwitchOpen, in_switch += 1.  The addition overflows at 255:
\* a build with overflow checks panics, one without wraps to 0.
TokOpen ==
  /\ InLoop
  /\ ~escape
  /\ Cur = LBrace
  /\ \E overflow_checks \in BOOLEAN :
       IF in_switch = U8Max /\ overflow_checks
       THEN /\ pc' = "overflow"
            /\ UNCHANGED <<origin, input, tokVars, err, buildVars, iterVars, permVars>>
       ELSE /\ tokens' = tokens \o Flush(x) \o <<TokSwitchOpen>>
            /\ x' = <<>>
            /\ in_switch' = (in_switch + 1) % (U8Max + 1)
            /\ pos' = pos + 1
            /\ UNCHANGED <<origin, input, pc, escape, err, buildVars, iterVars, permVars>>

\* The '}' arm without the look-ahead for a ',': the comma is left to the ','
\* arm.
TokCloseNoLookahead ==
  /\ InLoop
  /\ ~escape
  /\ Cur = RBrace
  /\ IF in_switch = 0
     THEN Bail("unmatched }, not in a switch statement")
     ELSE /\ tokens' = tokens \o Flush(x) \o <<TokSwitchClose>>
          /\ x' = <<>>
          /\ in_switch' = in_switch - 1
          /\ pos' = pos + 1
          /\ UNCHANGED <<origin, input, pc, escape, err, buildVars, iterVars, permVars>>

\* '}' => bail at depth 0; else flush, SwitchClose, in_switch -= 1, and a ','
\* that follows is consumed as SwitchNext (with an empty chunk if '}' follows).
TokClose ==
  /\ InLoop
  /\ ~escape
  /\ Cur = RBrace
  /\ IF in_switch = 0
     THEN Bail("unmatched }, not in a switch statement")
     ELSE LET comma == PeekAt(pos + 1) = Comma
              empty == comma /\ PeekAt(pos + 2) = RBrace
          IN /\ tokens' = tokens \o Flush(x) \o <<TokSwitchClose>>
                            \o (IF comma THEN <<TokSwitchNext>> ELSE <<>>)
                            \o (IF empty THEN <<TokChunk(<<>>)>> ELSE <<>>)
             /\ x' = <<>>
             /\ in_switch' = in_switch - 1
             /\ pos' = IF comma THEN pos + 2 ELSE pos + 1
             /\ UNCHANGED <<origin, input, pc, escape, err, buildVars, iterVars, permVars>>

\* The ',' arm pushing the pending literal only when it is not empty, as the
\* '{' and '}' arms do.
TokCommaSkipsEmpty ==
  /\ InLoop
  /\ ~escape
  /\ Cur = Comma
  /\ in_switch > 0
  /\ tokens' = tokens \o (IF x # <<>> THEN <<TokChunk(x)>> ELSE <<>>) \o <<TokSwitchNext>>
  /\ x' = <<>>
  /\ pos' = pos + 1
  /\ UNCHANGED <<origin, input, pc, in_switch, escape, err, buildVars, iterVars, permVars>>

\* ',' if in_switch > 0 => Chunk(x) (also when empty), SwitchNext, and an empty
\* chunk if '}' follows.
TokComma ==
  /\ InLoop
  /\ ~escape
  /\ Cur = Comma
  /\ in_switch > 0
  /\ tokens' = tokens \o <<TokChunk(x), TokSwitchNext>>
                 \o (IF PeekAt(pos + 1) = RBrace THEN <<TokChunk(<<>>)>> ELSE <<>>)
  /\ x' = <<>>
  /\ pos' = pos + 1
  /\ UNCHANGED <<origin, input, pc, in_switch, escape, err, buildVars, iterVars, permVars>>

\* The range loop with an exclusive upper bound, start..end.
RangeTokensExclusive(start, end) ==
  [i \in 1..(2 * (end - start) - 1) |->
     IF i % 2 = 1 THEN TokChunk(<<start + (i - 1) \div 2>>) ELSE TokSwitchNext]

\* for c in start..=end { push Chunk(c); if c < end { push SwitchNext } }
RangeTokens(start, end) ==
  [i \in 1..(2 * (end - start) + 1) |->
     IF i % 2 = 1 THEN TokChunk(<<start + (i - 1) \div 2>>) ELSE TokSwitchNext]

\* The bounds test accepting equal bounds.
NotAscendingStrict(start, end) == start > end

\* if start >= end { bail!("start needs to be smaller than end") }
NotAscending(start, end) == start >= end

\* '.' if in_switch > 0 => a range if another '.' follows, else a literal '.'.
TokDot ==
  /\ InLoop
  /\ ~escape
  /\ Cur = Dot
  /\ in_switch > 0
  /\ IF PeekAt(pos + 1) # Dot
     THEN /\ x' = Append(x, Cur)
          /\ pos' = pos + 1
          /\ UNCHANGED <<origin, input, pc, tokens, in_switch, escape, err, buildVars, iterVars, permVars>>
     ELSE LET first == PeekAt(pos + 2)
              escaped == first = Backslash
              end == IF escaped THEN PeekAt(pos + 3) ELSE first
              after == IF escaped THEN pos + 4 ELSE pos + 3
              start == Head(x)
          IN IF ByteLen(x) # 1
             THEN Bail("range patterns only support a single ascii character")
             ELSE IF pos + 2 >= Len(input)
             THEN Bail("unexpected end of string in range pattern")
             ELSE IF escaped /\ pos + 3 >= Len(input)
             THEN Bail("unexpected end of string in escape sequence")
             ELSE IF len_utf8(end) # 1
             THEN Bail("range patterns only support a single ascii character")
             ELSE IF PeekAt(after) # RBrace
             THEN Bail("range patterns only support a single ascii character")
             ELSE IF NotAscending(start % (U8Max + 1), end % (U8Max + 1))
             THEN Bail("start needs to be smaller than end")
             ELSE /\ tokens' = tokens \o RangeTokens(start % (U8Max + 1), end % (U8Max + 1))
                  /\ x' = <<>>
                  /\ pos' = after
                  /\ UNCHANGED <<origin, input, pc, in_switch, escape, err, buildVars, iterVars, permVars>>

\* '\\' => escape = true
TokBackslash ==
  /\ InLoop
  /\ ~escape
  /\ Cur = Backslash
  /\ escape' = TRUE
  /\ pos' = pos + 1
  /\ UNCHANGED <<origin, input, pc, tokens, in_switch, x, err, buildVars, iterVars, permVars>>

\* c => x.push(c): every other character, and ',' and '.' at depth 0.
TokOther ==
  /\ InLoop
  /\ ~escape
  /\ Cur \notin {LBrace, RBrace, Backslash}
  /\ Cur \in {Comma, Dot} => in_switch = 0
  /\ x' = Append(x, Cur)
  /\ pos' = pos + 1
  /\ UNCHANGED <<origin, input, pc, tokens, in_switch, escape, err, buildVars, iterVars, permVars>>

\* After the loop: flush the buffer, bail if a switch is still open, Ok(tokens).
TokEnd ==
  /\ pc = "parse"
  /\ pos = Len(input)
  /\ IF in_switch > 0
     THEN Bail("unmatched {, still in switch at end of string")
     ELSE /\ tokens' = tokens \o Flush(x)
          /\ pc' = "build"
          /\ UNCHANGED <<origin, input, pos, in_switch, escape, x, err, buildVars, iterVars, permVars>>

(***************************************************************************)
(* Pattern::from_str, one action per arm of the match on the next token.   *)
(***************************************************************************)
InBuild == pc = "build" /\ tpos < Len(tokens)

\* The token the for loop hands to the match.
Tok == tokens[tpos + 1]

\* Switch::push.  The option index is out of range (a panic) when the write
\* cursor is still past the end after one slot was added.
SwitchPush(sw, frag) ==
  LET opts == IF sw.write_cursor + 1 > Len(sw.options)
              THEN Append(sw.options, <<>>)
              ELSE sw.options
  IN IF sw.write_cursor >= Len(opts)
     THEN [ok |-> FALSE, switch |-> sw]
     ELSE [ok |-> TRUE,
           switch |-> [sw EXCEPT !.options =
                         [opts EXCEPT ![sw.write_cursor + 1] = Append(@, frag)]]]

\* A separator that moves the write cursor on by two slots.
SwitchBumpWriteCursorTwice(sw) == [sw EXCEPT !.write_cursor = @ + 2]

\* Switch::bump_write_cursor
SwitchBumpWriteCursor(sw) == [sw EXCEPT !.write_cursor = @ + 1]

\* A close that leaves the write cursor where the separators put it.
SwitchNoReset(sw) == sw

\* Switch::reset
SwitchReset(sw) == [sw EXCEPT !.write_cursor = 0]

\* A panic of from_str (unwrap on None, index out of range).
BuildPanic ==
  /\ pc' = "panic"
  /\ UNCHANGED <<origin, input, tokVars, err, buildVars, iterVars, permVars>>

\* if let Some(tail) = switches.last_mut() { tail.push(frag) }
\* else { fragments.push(frag) }, on the stack st.
PushFragment(st, frag) ==
  IF st # <<>>
  THEN LET r == SwitchPush(st[Len(st)], frag)
       IN IF r.ok
          THEN /\ switches' = [st EXCEPT ![Len(st)] = r.switch]
               /\ fragments' = fragments
               /\ tpos' = tpos + 1
               /\ UNCHANGED <<origin, input, pc, tokVars, err, iterVars, permVars>>
          ELSE BuildPanic
  ELSE /\ switches' = st
       /\ fragments' = Append(fragments, frag)
       /\ tpos' = tpos + 1
       /\ UNCHANGED <<origin, input, pc, tokVars, err, iterVars, permVars>>

\* Token::Chunk(chunk)
BuildChunk ==
  /\ InBuild
  /\ Tok.type = "Chunk"
  /\ PushFragment(switches, FragChunk(Tok.text))

\* Token::SwitchOpen
BuildSwitchOpen ==
  /\ InBuild
  /\ Tok.type = "SwitchOpen"
  /\ switches' = Append(switches, SwitchNew)
  /\ tpos' = tpos + 1
  /\ UNCHANGED <<origin, input, pc, tokVars, err, fragments, iterVars, permVars>>

\* Token::SwitchClose: switches.pop().unwrap() panics on an empty stack.
BuildSwitchClose ==
  /\ InBuild
  /\ Tok.type = "SwitchClose"
  /\ IF switches = <<>>
     THEN BuildPanic
     ELSE PushFragment(SubSeq(switches, 1, Len(switches) - 1),
                       FragSwitch(SwitchReset(switches[Len(switches)])))

\* Token::SwitchNext: switches.last_mut().unwrap() panics on an empty stack.
BuildSwitchNext ==
  /\ InBuild
  /\ Tok.type = "SwitchNext"
  /\ IF switches = <<>>
     THEN BuildPanic
     ELSE /\ switches' = [switches EXCEPT ![Len(switches)] = SwitchBumpWriteCursor(@)]
          /\ tpos' = tpos + 1
          /\ UNCHANGED <<origin, input, pc, tokVars, err, fragments, iterVars, permVars>>

\* Ok(Pattern::from(fragments))
BuildEnd ==
  /\ pc = "build"
  /\ tpos = Len(tokens)
  /\ pattern' = PatternFrom(fragments)
  /\ pc' = CASE origin = "main" -> "permutate"
             [] origin = "count" -> "count"
             [] OTHER -> "iter"
  /\ UNCHANGED <<origin, input, tokVars, err, buildVars, out, ret, yielded, counted, permVars>>

(***************************************************************************)
(* The enumerator: Switch::next, Switch::bump, Switch::count and the       *)
(* methods of Pattern.                                                     *)
(***************************************************************************)
RECURSIVE RenderFrags(_)
RECURSIVE SwitchNext(_)

\* The text a sequence of fragments appends to out (the for loops of
\* Pattern::next and Switch::next).
RenderFrags(frags) ==
  IF frags = <<>>
  THEN <<>>
  ELSE LET f == Head(frags)
       IN (IF f.kind = "Chunk" THEN f.text ELSE SwitchNext(f.switch))
            \o RenderFrags(Tail(frags))

\* Switch::next: the text of the option the cursor selects, nothing if the
\* cursor selects no option.
SwitchNext(sw) ==
  IF sw.ctr < Len(sw.options) THEN RenderFrags(sw.options[sw.ctr + 1]) ELSE <<>>

RECURSIVE BumpFrags(_)
RECURSIVE SwitchBump(_)

\* The for loops without `return false`: every switch of the sequence is
\* bumped.
BumpFragsNoEarlyReturn(frags) ==
  IF frags = <<>>
  THEN [frags |-> <<>>, carry |-> TRUE]
  ELSE LET f == Head(frags)
           r == BumpFrags(Tail(frags))
       IN IF f.kind = "Chunk"
          THEN [frags |-> <<f>> \o r.frags, carry |-> r.carry]
          ELSE LET b == SwitchBump(f.switch)
               IN [frags |-> <<FragSwitch(b.switch)>> \o r.frags,
                   carry |-> b.carry /\ r.carry]

\* The for loops of Pattern::bump and Switch::bump: bump the switches from the
\* left and return at the first one that reports no carry.
BumpFrags(frags) ==
  IF frags = <<>>
  THEN [frags |-> <<>>, carry |-> TRUE]
  ELSE LET f == Head(frags)
       IN IF f.kind = "Chunk"
          THEN LET r == BumpFrags(Tail(frags))
               IN [frags |-> <<f>> \o r.frags, carry |-> r.carry]
          ELSE LET b == SwitchBump(f.switch)
               IN IF ~b.carry
                  THEN [frags |-> <<FragSwitch(b.switch)>> \o Tail(frags),
                        carry |-> FALSE]
                  ELSE LET r == BumpFrags(Tail(frags))
                       IN [frags |-> <<FragSwitch(b.switch)>> \o r.frags,
                           carry |-> r.carry]

\* Switch::bump without `return false`: the cursor moves on also when a
\* switch of the selected option has not wrapped.
SwitchBumpLeavesOption(sw) ==
  LET inner == IF sw.ctr < Len(sw.options)
               THEN BumpFrags(sw.options[sw.ctr + 1])
               ELSE [frags |-> <<>>, carry |-> TRUE]
      opts == IF sw.ctr < Len(sw.options)
              THEN [sw.options EXCEPT ![sw.ctr + 1] = inner.frags]
              ELSE sw.options
  IN IF sw.ctr + 1 >= Len(sw.options)
     THEN [switch |-> [sw EXCEPT !.options = opts, !.ctr = 0], carry |-> TRUE]
     ELSE [switch |-> [sw EXCEPT !.options = opts, !.ctr = sw.ctr + 1],
           carry |-> FALSE]

\* Switch::bump without `self.ctr = 0` on the carry.
SwitchBumpNoWrap(sw) ==
  LET inner == IF sw.ctr < Len(sw.options)
               THEN BumpFrags(sw.options[sw.ctr + 1])
               ELSE [frags |-> <<>>, carry |-> TRUE]
      opts == IF sw.ctr < Len(sw.options)
              THEN [sw.options EXCEPT ![sw.ctr + 1] = inner.frags]
              ELSE sw.options
  IN IF ~inner.carry
     THEN [switch |-> [sw EXCEPT !.options = opts], carry |-> FALSE]
     ELSE [switch |-> [sw EXCEPT !.options = opts, !.ctr = sw.ctr + 1],
           carry |-> sw.ctr + 1 >= Len(sw.options)]

\* Switch::bump
SwitchBump(sw) ==
  LET inner == IF sw.ctr < Len(sw.options)
               THEN BumpFrags(sw.options[sw.ctr + 1])
               ELSE [frags |-> <<>>, carry |-> TRUE]
      opts == IF sw.ctr < Len(sw.options)
              THEN [sw.options EXCEPT ![sw.ctr + 1] = inner.frags]
              ELSE sw.options
  IN IF ~inner.carry
     THEN [switch |-> [sw EXCEPT !.options = opts], carry |-> FALSE]
     ELSE IF sw.ctr + 1 >= Len(sw.options)
          THEN [switch |-> [sw EXCEPT !.options = opts, !.ctr = 0], carry |-> TRUE]
          ELSE [switch |-> [sw EXCEPT !.options = opts, !.ctr = sw.ctr + 1],
                carry |-> FALSE]

\* Pattern::bump iterating from the last fragment to the first.
PatternBumpRightFirst(p) ==
  LET Reverse(q) == [i \in 1..Len(q) |-> q[Len(q) + 1 - i]]
      r == BumpFrags(Reverse(p.fragments))
  IN [pattern |-> [p EXCEPT !.fragments = Reverse(r.frags)], carry |-> r.carry]

\* Pattern::bump without the early return: every top-level switch is bumped.
PatternBumpAll(p) ==
  LET bumped == [i \in 1..Len(p.fragments) |->
                   IF p.fragments[i].kind = "Chunk"
                   THEN [frag |-> p.fragments[i], carry |-> TRUE]
                   ELSE LET b == SwitchBump(p.fragments[i].switch)
                        IN [frag |-> FragSwitch(b.switch), carry |-> b.carry]]
  IN [pattern |-> [p EXCEPT !.fragments = [i \in 1..Len(bumped) |-> bumped[i].frag]],
      carry |-> \A i \in 1..Len(bumped) : bumped[i].carry]

\* Pattern::bump
PatternBump(p) ==
  LET r == BumpFrags(p.fragments)
  IN [pattern |-> [p EXCEPT !.fragments = r.frags], carry |-> r.carry]

RECURSIVE CountFrags(_)
RECURSIVE SwitchCount(_)
RECURSIVE SumOptions(_)

\* The product loops of Pattern::count and Switch::count.
CountFrags(frags) ==
  IF frags = <<>>
  THEN 1
  ELSE LET f == Head(frags)
       IN (IF f.kind = "Chunk" THEN 1 ELSE SwitchCount(f.switch))
            * CountFrags(Tail(frags))

\* The sum loop of Switch::count.
SumOptions(options) ==
  IF options = <<>> THEN 0 ELSE CountFrags(Head(options)) + SumOptions(Tail(options))

\* A count that takes a switch without options for one combination.
SwitchCountAtLeastOne(sw) == IF sw.options = <<>> THEN 1 ELSE SumOptions(sw.options)

\* Switch::count
SwitchCount(sw) == SumOptions(sw.options)

\* Pattern::count
PatternCount(p) == CountFrags(p.fragments)

(***************************************************************************)
(* count() in the arithmetic of usize.  A number is the sequence of its     *)
(* limbs, the limb of least weight first and the last limb not 0; a usize  *)
(* has at most WordLimbs limbs.                                            *)
(***************************************************************************)
RECURSIVE BigNorm(_)
RECURSIVE BigOfNat(_)
RECURSIVE BigAddCarry(_, _, _)
RECURSIVE BigMulLimb(_, _, _)
RECURSIVE BigMul(_, _)

\* The number without limbs of value 0 at its end.
BigNorm(a) ==
  IF a = <<>> \/ a[Len(a)] # 0 THEN a ELSE BigNorm(SubSeq(a, 1, Len(a) - 1))

\* The literals 0 and 1 of count.
BigOfNat(n) == IF n = 0 THEN <<>> ELSE <<n % LimbBase>> \o BigOfNat(n \div LimbBase)

\* a + b + c, limb by limb.
BigAddCarry(a, b, c) ==
  IF a = <<>> /\ b = <<>>
  THEN BigOfNat(c)
  ELSE LET s == (IF a = <<>> THEN 0 ELSE Head(a)) + (IF b = <<>> THEN 0 ELSE Head(b)) + c
       IN <<s % LimbBase>>
            \o BigAddCarry(IF a = <<>> THEN a ELSE Tail(a),
                           IF b = <<>> THEN b ELSE Tail(b),
                           s \div LimbBase)

BigAdd(a, b) == BigNorm(BigAddCarry(a, b, 0))

\* a * d + c for one limb d.
BigMulLimb(a, d, c) ==
  IF a = <<>>
  THEN BigOfNat(c)
  ELSE LET s == Head(a) * d + c
       IN <<s % LimbBase>> \o BigMulLimb(Tail(a), d, s \div LimbBase)

BigMul(a, b) ==
  IF a = <<>>
  THEN <<>>
  ELSE BigNorm(BigAddCarry(BigMulLimb(b, Head(a), 0),
                           IF Tail(a) = <<>> THEN <<>> ELSE <<0>> \o BigMul(Tail(a), b),
                           0))

\* The value a usize holds after an operation whose exact result is r, and
\* whether the operation overflowed: a build with overflow checks panics on
\* an overflow, one without keeps the low WordLimbs limbs.
Usize(r) ==
  [value |-> IF Len(r) > WordLimbs THEN BigNorm(SubSeq(r, 1, WordLimbs)) ELSE r,
   overflow |-> Len(r) > WordLimbs]

\* sum *= m
UsizeMul(a, b) == Usize(BigMul(a, b))

\* sum += sum2
UsizeAdd(a, b) == Usize(BigAdd(a, b))

RECURSIVE CountFragsUsize(_, _)
RECURSIVE SumOptionsUsize(_, _)
RECURSIVE SwitchCountUsize(_)

\* The product loops of Pattern::count and Switch::count, from the left, with
\* the accumulator acc (sum, sum2): its value and whether an operation so far
\* has overflowed.
CountFragsUsize(frags, acc) ==
  IF frags = <<>>
  THEN acc
  ELSE LET f == Head(frags)
           m == IF f.kind = "Chunk"
                THEN [value |-> BigOfNat(1), overflow |-> FALSE]
                ELSE SwitchCountUsize(f.switch)
           r == UsizeMul(acc.value, m.value)
       IN CountFragsUsize(Tail(frags),
                          [value |-> r.value,
                           overflow |-> acc.overflow \/ m.overflow \/ r.overflow])

\* The sum loop of Switch::count, from the first option.
SumOptionsUsize(options, acc) ==
  IF options = <<>>
  THEN acc
  ELSE LET sum2 == CountFragsUsize(Head(options),
                                   [value |-> BigOfNat(1), overflow |-> FALSE])
           r == UsizeAdd(acc.value, sum2.value)
       IN SumOptionsUsize(Tail(options),
                          [value |-> r.value,
                           overflow |-> acc.overflow \/ sum2.overflow \/ r.overflow])

\* Switch::count
SwitchCountUsize(sw) ==
  SumOptionsUsize(sw.options, [value |-> BigOfNat(0), overflow |-> FALSE])

\* Pattern::count
PatternCountUsize(p) ==
  CountFragsUsize(p.fragments, [value |-> BigOfNat(1), overflow |-> FALSE])

\* A render loop that also moves the cursors on.
PatternRenderAdvances(p, buf) ==
  [pattern |-> PatternBump(p).pattern, out |-> buf \o RenderFrags(p.fragments)]

\* The for loop of Pattern::next over &mut self.fragments: the text of the
\* current combination is appended to the buffer; the loop assigns to no
\* field of the pattern.
PatternRender(p, buf) == [pattern |-> p, out |-> buf \o RenderFrags(p.fragments)]

\* Pattern::next without the check of done.
PatternNextNoDoneCheck(p, buf) ==
  LET text == RenderFrags(p.fragments)
      b == PatternBump(p)
  IN [some |-> TRUE,
      pattern |-> [b.pattern EXCEPT !.done = b.carry],
      out |-> buf \o text,
      text |-> text]

\* Pattern::next that never sets done.
PatternNextNeverDone(p, buf) ==
  IF p.done
  THEN [some |-> FALSE, pattern |-> p, out |-> buf, text |-> <<>>]
  ELSE LET text == RenderFrags(p.fragments)
       IN [some |-> TRUE,
           pattern |-> PatternBump(p).pattern,
           out |-> buf \o text,
           text |-> text]

\* Pattern::next(out) with the buffer buf: None if done, else the current
\* combination is appended to the buffer, the pattern is bumped and done is
\* set on a carry.
PatternNext(p, buf) ==
  IF p.done
  THEN [some |-> FALSE, pattern |-> p, out |-> buf, text |-> <<>>]
  ELSE LET Bumped(r) ==
             LET b == PatternBump(r.pattern)
             IN [some |-> TRUE,
                 pattern |-> [b.pattern EXCEPT !.done = b.carry],
                 out |-> r.out,
                 text |-> SubSeq(r.out, Len(buf) + 1, Len(r.out))]
       IN CHOOSE n \in {Bumped(r) : r \in {PatternRender(p, buf)}} : TRUE

\* A caller of the library calls pattern.next(&mut out).
CallNext ==
  /\ pc = "iter"
  /\ LET r == PatternNext(pattern, out)
     IN /\ pattern' = r.pattern
        /\ out' = r.out
        /\ ret' = IF r.some THEN "Some" ELSE "None"
        /\ yielded' = IF r.some THEN Append(yielded, r.text) ELSE yielded
  /\ UNCHANGED <<origin, input, pc, tokVars, err, buildVars, counted, permVars>>

\* A caller of the library empties its buffer between two calls (a new String
\* in next_owned).
OutClear ==
  /\ pc = "iter"
  /\ out # <<>>
  /\ out' = <<>>
  /\ UNCHANGED <<origin, input, pc, tokVars, err, buildVars, pattern, ret, yielded, counted, permVars>>

(***************************************************************************)
(* permutate (main.rs), one action per turn of its while let loop.  The    *)
(* sink is outside the program: its answer is any SolveStatus or an error. *)
(***************************************************************************)
SinkAnswers == {"Unsolved", "KnownSolution", "UnknownSolution", "Err"}

FeedbackInc == [call |-> "inc", password |-> <<>>]

\* found called with the password as display_pw shows it, without its newline.
FeedbackFoundDisplayed(hit) ==
  [call |-> "found", password |-> SubSeq(hit, 1, Len(hit) - 1)]

\* f.found(hit), hit being the bytes the sink was given (Exec::write returns
\* KnownSolution(b)).
FeedbackFound(hit) == [call |-> "found", password |-> hit]

FeedbackFinish == [call |-> "finish", password |-> <<>>]

\* A loop body without out.clear().
OutKept(buf) == buf

\* out.clear()
OutCleared(buf) == <<>>

\* while let Some(out) = pattern.next(&mut out) { out.push('\n');
\* match sink.write(out.as_bytes())? { ... }; out.clear(); f.inc(); }
\* f.finish(); Ok(())
PermutateStep ==
  /\ pc = "permutate"
  /\ LET r == PatternNext(pattern, out)
         bytes == Append(r.out, Newline)
     IN /\ pattern' = r.pattern
        /\ IF ~r.some
           THEN /\ ret' = "None"
                /\ feedback' = Append(feedback, FeedbackFinish)
                /\ pc' = "finished"
                /\ UNCHANGED <<out, yielded, written, status>>
           ELSE /\ ret' = "Some"
                /\ yielded' = Append(yielded, r.text)
                /\ written' = Append(written, bytes)
                /\ \E answer \in SinkAnswers :
                     /\ status' = answer
                     /\ CASE answer = "Unsolved" ->
                               /\ out' = OutCleared(bytes)
                               /\ feedback' = Append(feedback, FeedbackInc)
                               /\ pc' = "permutate"
                          [] answer = "KnownSolution" ->
                               /\ out' = bytes
                               /\ feedback' = feedback \o <<FeedbackFound(bytes), FeedbackFinish>>
                               /\ pc' = "finished"
                          [] answer = "UnknownSolution" ->
                               /\ out' = bytes
                               /\ feedback' = Append(feedback, FeedbackFinish)
                               /\ pc' = "finished"
                          [] answer = "Err" ->
                               /\ out' = bytes
                               /\ feedback' = feedback
                               /\ pc' = "failed"
  /\ UNCHANGED <<origin, input, tokVars, err, buildVars, counted>>

\* count() returns, or panics on an overflow in a build with overflow checks.
Counted(p, after) ==
  LET c == PatternCountUsize(p)
  IN \E overflow_checks \in BOOLEAN :
       IF c.overflow /\ overflow_checks
       THEN /\ pc' = "count_overflow"
            /\ counted' = counted
       ELSE /\ pc' = after
            /\ counted' = <<c.value>>

\* A caller of the library calls pattern.count(), before, between or after
\* its calls of next.
CallCount ==
  /\ pc = "iter"
  /\ Counted(pattern, "iter")
  /\ UNCHANGED <<origin, input, tokVars, err, buildVars, pattern, out, ret, yielded, permVars>>

\* main calls args.pattern.count(): to print it when run with --count, and
\* for the progress bar before it calls permutate.
MainCount ==
  /\ \/ pc = "count"
     \/ pc = "permutate" /\ ret = "" /\ counted = <<>>
  /\ Counted(pattern, IF pc = "count" THEN "printed" ELSE "permutate")
  /\ UNCHANGED <<origin, input, tokVars, err, buildVars, pattern, out, ret, yielded, permVars>>

Next ==
  \/ TokEscaped
  \/ TokOpen
  \/ TokClose
  \/ TokComma
  \/ TokDot
  \/ TokBackslash
  \/ TokOther
  \/ TokEnd
  \/ BuildChunk
  \/ BuildSwitchOpen
  \/ BuildSwitchClose
  \/ BuildSwitchNext
  \/ BuildEnd
  \/ CallNext
  \/ OutClear
  \/ PermutateStep
  \/ CallCount
  \/ MainCount

Spec == Init /\ [][Next]_vars

\* The caller keeps calling next (the loop of the tests' all) until it
\* returns None.
FairSpec == Spec /\ WF_vars(CallNext)

(***************************************************************************)
(* Properties.                                                             *)
(***************************************************************************)
\* The pattern as it was built, before any call of next.
Fresh == PatternFrom(fragments)

\* next has returned None: the pattern is drained.
Drained == pc = "iter" /\ ret = "None"

\* C1: for every pattern that is built, count() of the fresh pattern equals
\* the number of Some results next returns before the first None.
C1_CountEqualsYields ==
  (Drained /\ origin = "from_str") => PatternCount(Fresh) = Len(yielded)

(***************************************************************************)
(* The reference expansion of a tree, computed from the tree alone.        *)
(***************************************************************************)
\* Every combination of one text of H and one text of R, the text of H
\* changing on every step and the text of R when H has gone round.
Cross(H, R) ==
  [k \in 1..(Len(H) * Len(R)) |->
     H[((k - 1) % Len(H)) + 1] \o R[((k - 1) \div Len(H)) + 1]]

RECURSIVE ExpandFrags(_, _)
RECURSIVE ExpandOptions(_, _)

\* The expansion of a switch: the expansions of its options in declared
\* order; `none` is the expansion of a switch that has no options.
ExpandSwitch(sw, none) ==
  IF sw.options = <<>> THEN none ELSE ExpandOptions(sw.options, none)

ExpandOptions(options, none) ==
  IF options = <<>>
  THEN <<>>
  ELSE ExpandFrags(Head(options), none) \o ExpandOptions(Tail(options), none)

\* The expansion of a sequence of fragments, the leftmost changing fastest.
ExpandFrags(frags, none) ==
  IF frags = <<>>
  THEN << <<>> >>
  ELSE LET f == Head(frags)
       IN Cross(IF f.kind = "Chunk" THEN <<f.text>> ELSE ExpandSwitch(f.switch, none),
                ExpandFrags(Tail(frags), none))

IsPrefix(s, t) == Len(s) <= Len(t) /\ s = SubSeq(t, 1, Len(s))

\* C2 as stated: the texts next yields are a prefix of the reference
\* expansion, and all of it once next has returned None; a switch yields the
\* expansions of its options, so a switch without options yields nothing.
C2_YieldsExpansionLiteral ==
  pc = "iter" =>
    LET E == ExpandFrags(fragments, <<>>)
    IN /\ IsPrefix(yielded, E)
       /\ ret = "None" => yielded = E

\* C2 amended: the same with a switch without options yielding the empty
\* text once (test empty_switch).
C2_YieldsExpansion ==
  pc = "iter" =>
    LET E == ExpandFrags(fragments, << <<>> >>)
    IN /\ IsPrefix(yielded, E)
       /\ pattern.done <=> Len(yielded) = Len(E)
       /\ ret = "None" => yielded = E

\* A pattern with two top-level groups and nine combinations is drained.
C2_Witness ==
  /\ Drained
  /\ origin = "from_str"
  /\ Len(fragments) >= 2
  /\ Len(yielded) >= 9

(***************************************************************************)
(* The positions of the cursors of a tree.                                 *)
(***************************************************************************)
RECURSIVE SwitchZero(_)
RECURSIVE SwitchAtLast(_)

\* The switches among a sequence of fragments.
SwitchesOf(frags) ==
  {frags[i].switch : i \in {k \in 1..Len(frags) : frags[k].kind = "Switch"}}

\* Every cursor of the switch and of the switches below it is 0.
SwitchZero(sw) ==
  /\ sw.ctr = 0
  /\ \A i \in 1..Len(sw.options) : \A n \in SwitchesOf(sw.options[i]) : SwitchZero(n)

\* The switch shows its last combination: its cursor selects its last
\* option and every switch of that option shows its last combination.
SwitchAtLast(sw) ==
  \/ sw.options = <<>>
  \/ /\ sw.ctr = Len(sw.options) - 1
     /\ \A n \in SwitchesOf(sw.options[sw.ctr + 1]) : SwitchAtLast(n)

\* The switch went from its last combination back to its first.
Wrapped(before, after) == SwitchAtLast(before) /\ SwitchZero(after)

\* A call of next that advanced the pattern.
Advance == pc = "iter" /\ pattern' # pattern

\* C3 as stated: between two consecutive combinations a top-level group
\* changes only when every group declared after it has wrapped.
C3_LastGroupFastest ==
  [][Advance =>
       \A i, j \in 1..Len(pattern.fragments) :
         (/\ i < j
          /\ pattern.fragments[i].kind = "Switch"
          /\ pattern.fragments[j].kind = "Switch"
          /\ pattern'.fragments[i] # pattern.fragments[i])
         => Wrapped(pattern.fragments[j].switch, pattern'.fragments[j].switch)]_vars

RECURSIVE LeftFirstFrags(_, _)

\* One advance of a switch, innermost first: its cursor moves only when every
\* switch of the selected option has wrapped, otherwise the selected option
\* advances leftmost first; the options not selected stay as they are.
LeftFirstSwitch(before, after) ==
  /\ Len(after.options) = Len(before.options)
  /\ \A k \in 1..Len(before.options) :
       k # before.ctr + 1 => after.options[k] = before.options[k]
  /\ before.ctr < Len(before.options) =>
       LET sel == before.options[before.ctr + 1]
           sel2 == after.options[before.ctr + 1]
       IN IF after.ctr # before.ctr
          THEN /\ Len(sel2) = Len(sel)
               /\ \A k \in 1..Len(sel) :
                    sel[k].kind = "Switch" => Wrapped(sel[k].switch, sel2[k].switch)
          ELSE LeftFirstFrags(sel, sel2)

\* One advance of a sequence of fragments, leftmost first: a switch changes
\* only when every switch to its left in the sequence has wrapped.
LeftFirstFrags(before, after) ==
  /\ Len(after) = Len(before)
  /\ \A j \in 1..Len(before) :
       IF before[j].kind = "Chunk"
       THEN after[j] = before[j]
       ELSE after[j] # before[j] =>
              /\ after[j].kind = "Switch"
              /\ LeftFirstSwitch(before[j].switch, after[j].switch)
              /\ \A i \in 1..(j - 1) :
                   before[i].kind = "Switch" =>
                     Wrapped(before[i].switch, after[i].switch)

\* C3 amended: advancing increments the leftmost, innermost active switch
\* first: the first-declared group changes on every advance and a later
\* group changes only when every earlier group has wrapped.
C3_FirstGroupFastest ==
  [][Advance =>
       /\ LeftFirstFrags(pattern.fragments, pattern'.fragments)
       /\ \A j \in 1..Len(pattern.fragments) :
            (/\ pattern.fragments[j].kind = "Switch"
             /\ \A i \in 1..(j - 1) : pattern.fragments[i].kind = "Chunk")
            => \/ pattern'.fragments[j] # pattern.fragments[j]
               \/ Wrapped(pattern.fragments[j].switch, pattern'.fragments[j].switch)]_vars

\* The first of two top-level groups has wrapped and the second has moved on
\* to its second option.
C3_Witness ==
  /\ pc = "iter"
  /\ origin = "from_str"
  /\ Len(pattern.fragments) = 2
  /\ pattern.fragments[1].kind = "Switch"
  /\ pattern.fragments[2].kind = "Switch"
  /\ Len(pattern.fragments[1].switch.options) >= 2
  /\ pattern.fragments[1].switch.ctr = 0
  /\ pattern.fragments[2].switch.ctr = 1
  /\ Len(yielded) = Len(pattern.fragments[1].switch.options)

\* C4: once next has returned the last combination (done is set), a call of
\* next returns None and changes neither the buffer nor the pattern; the
\* buffer changes only when the caller empties it, and nothing is yielded.
C4_ExhaustionPermanent ==
  [][(pc = "iter" /\ pattern.done) =>
       /\ pattern' = pattern
       /\ yielded' = yielded
       /\ ret' # ret => (ret' = "None" /\ out' = out)
       /\ out' # out => (out' = <<>> /\ ret' = ret)]_vars

\* next has returned None to a caller whose buffer still holds the last of
\* several combinations.
C4_Witness ==
  /\ Drained
  /\ pattern.done
  /\ Len(yielded) >= 2
  /\ out # <<>>

(***************************************************************************)
(* The number of the combination a tree shows, counted from 0.             *)
(***************************************************************************)
RECURSIVE Combos(_)
RECURSIVE CombosBefore(_, _)
RECURSIVE IndexFrags(_)

\* The number of combinations of a switch: those of its options together,
\* one for a switch without options.
SwitchCombos(sw) ==
  IF sw.options = <<>> THEN 1 ELSE CombosBefore(sw.options, Len(sw.options))

\* The number of combinations of a sequence of fragments.
Combos(frags) ==
  IF frags = <<>>
  THEN 1
  ELSE (IF Head(frags).kind = "Chunk" THEN 1 ELSE SwitchCombos(Head(frags).switch))
         * Combos(Tail(frags))

\* The number of combinations of the first k options.
CombosBefore(options, k) ==
  IF k = 0 THEN 0 ELSE CombosBefore(options, k - 1) + Combos(options[k])

\* The number of the combination a switch shows.
IndexSwitch(sw) ==
  IF sw.ctr < Len(sw.options)
  THEN CombosBefore(sw.options, sw.ctr) + IndexFrags(sw.options[sw.ctr + 1])
  ELSE 0

\* The number of the combination a sequence of fragments shows, the leftmost
\* fragment counting the units.
IndexFrags(frags) ==
  IF frags = <<>>
  THEN 0
  ELSE LET f == Head(frags)
       IN IF f.kind = "Chunk"
          THEN IndexFrags(Tail(frags))
          ELSE IndexSwitch(f.switch) + SwitchCombos(f.switch) * IndexFrags(Tail(frags))

\* C5: from every pattern that is built (by from_str or handed to
\* Pattern::from, empty groups and empty options included) the repeated calls
\* of next lead to a call that returns None, after finitely many calls: each
\* call that returns Some moves the tree on by one of its finitely many
\* combinations and sets done at the last one.
C5_Terminates ==
  /\ [][(pc = "iter" /\ yielded' # yielded) =>
          LET i == IndexFrags(pattern.fragments)
              n == Combos(fragments)
          IN /\ ~pattern.done
             /\ i < n
             /\ IF i + 1 < n
                THEN ~pattern'.done /\ IndexFrags(pattern'.fragments) = i + 1
                ELSE pattern'.done]_vars
  /\ (pc = "iter") ~> (ret = "None")

\* next has returned None for a tree with an empty group and an empty option.
C5_Witness ==
  /\ Drained
  /\ \E i \in 1..Len(fragments) :
       /\ fragments[i].kind = "Switch"
       /\ \E k \in 1..Len(fragments[i].switch.options) :
            /\ fragments[i].switch.options[k] # <<>>
            /\ fragments[i].switch.options[k][1] = FragSwitch(SwitchFrom(<<>>))
  /\ \E j \in 1..Len(fragments) :
       /\ fragments[j].kind = "Switch"
       /\ \E k \in 1..Len(fragments[j].switch.options) :
            fragments[j].switch.options[k] = <<>>

\* C6: on every input that parse accepts, from_str consumes all tokens and
\* returns a Pattern; it never aborts on an unwrap of None or on an option
\* index out of range.
C6_BuilderNeverAborts == pc # "panic"

(***************************************************************************)
(* Escaping, read off the input alone.                                     *)
(***************************************************************************)
RECURSIVE EscapedAt(_)

\* The i-th character of the input directly follows an unescaped backslash.
EscapedAt(i) == i > 1 /\ input[i - 1] = Backslash /\ ~EscapedAt(i - 1)

\* The characters of the chunks among the tokens toks.
ChunkChars(toks) ==
  UNION {{toks[k].text[n] : n \in 1..Len(toks[k].text)} :
           k \in {m \in 1..Len(toks) : toks[m].type = "Chunk"}}

\* Reading the character at pos + 1: the tokenizer's flag is set exactly when
\* that character is escaped; an escaped character is appended to the pending
\* literal and changes neither the tokens nor the depth; an unescaped
\* backslash is dropped.
EscapeStep ==
  /\ escape <=> EscapedAt(pos + 1)
  /\ EscapedAt(pos + 1) =>
       /\ x' = Append(x, input[pos + 1])
       /\ tokens' = tokens
       /\ in_switch' = in_switch
       /\ pos' = pos + 1
       /\ escape' = FALSE
       /\ pc' = "parse"
  /\ (~escape /\ input[pos + 1] = Backslash) =>
       (x' = x /\ tokens' = tokens /\ in_switch' = in_switch /\ pos' = pos + 1)

\* The escaped characters that the step consumes beyond the one it reads.
EscapedTaken == {i \in (pos + 2)..pos' : EscapedAt(i)}

\* When parse succeeds every escaped character is in a chunk, and a backslash
\* is in a chunk only if it was escaped or produced by a range.
EscapedInChunks ==
  (pc = "parse" /\ pc' = "build") =>
    /\ \A i \in 1..Len(input) : EscapedAt(i) => input[i] \in ChunkChars(tokens')
    /\ (\A i \in 1..Len(input) :
           input[i] # Dot /\ ~(EscapedAt(i) /\ input[i] = Backslash))
       => Backslash \notin ChunkChars(tokens')

\* C7 as stated: an escaped character is literal text, and no look-ahead of a
\* preceding '}', ',' or '.' ever takes it.
C7_EscapedNeverTaken ==
  /\ [][(pc = "parse" /\ pos < Len(input)) => (EscapeStep /\ EscapedTaken = {})]_vars
  /\ [][EscapedInChunks]_vars

\* C7: a character directly preceded by an unescaped backslash is literal
\* text.  It never produces a switch token, never changes the depth, never
\* starts a range, and the look-ahead of a preceding '}' or ',' never takes
\* it.  The look-ahead of '..' takes it only as the end of the range, where it
\* is the text of the last chunk.  The character is in a chunk and the
\* backslash is not.
C7_EscapedIsLiteral ==
  /\ [][(pc = "parse" /\ pos < Len(input)) =>
          /\ EscapeStep
          /\ \A i \in EscapedTaken :
               /\ input[pos + 1] = Dot
               /\ input[pos + 2] = Dot
               /\ i = pos + 4
               /\ pos' = i
               /\ tokens'[Len(tokens')] = TokChunk(<<input[i]>>)]_vars
  /\ [][EscapedInChunks]_vars

\* A pattern in which each of the five grammar characters occurs escaped has
\* been parsed, built and drained.
C7_Witness ==
  /\ Drained
  /\ origin = "from_str"
  /\ in_switch = 0
  /\ \A c \in {LBrace, RBrace, Comma, Dot, Backslash} :
       \E i \in 1..Len(input) : EscapedAt(i) /\ input[i] = c

(***************************************************************************)
(* Groups and their commas, read off the input alone.                      *)
(***************************************************************************)
\* The i-th character of the input is c and is not escaped.
Unescaped(i, c) == input[i] = c /\ ~EscapedAt(i)

\* Number of groups open just before the i-th character.
DepthBefore(i) ==
  Cardinality({j \in 1..(i - 1) : Unescaped(j, LBrace)})
    - Cardinality({j \in 1..(i - 1) : Unescaped(j, RBrace)})

\* The '}' after p that close a group one level below the one around p.
Closes(p) ==
  {q \in (p + 1)..Len(input) :
     Unescaped(q, RBrace) /\ DepthBefore(q) = DepthBefore(p) + 1}

\* The '{' that have a matching '}'.
GroupOpens == {i \in 1..Len(input) : Unescaped(i, LBrace) /\ Closes(i) # {}}

\* Position of the k-th '{'.
OpenAt(k) == CHOOSE p \in GroupOpens : Cardinality({q \in GroupOpens : q < p}) = k - 1

\* Position of the '}' that closes the '{' at p.
CloseOf(p) == CHOOSE q \in Closes(p) : \A r \in Closes(p) : q <= r

\* Separating commas at the level of the group opened at p.
OwnCommas(p) ==
  Cardinality({i \in (p + 1)..(CloseOf(p) - 1) :
                 Unescaped(i, Comma) /\ DepthBefore(i) = DepthBefore(p) + 1})

BodyEmpty(p) == CloseOf(p) = p + 1

\* The input has no "..".
NoRange == \A i \in 1..(Len(input) - 1) : ~(input[i] = Dot /\ input[i + 1] = Dot)

RECURSIVE SwitchesPre(_)
RECURSIVE OptionsPre(_)

\* The switches of a tree in the order their groups open.
SwitchesPre(frags) ==
  IF frags = <<>> THEN <<>>
  ELSE LET f == Head(frags)
       IN (IF f.kind = "Switch"
           THEN <<f.switch>> \o OptionsPre(f.switch.options)
           ELSE <<>>) \o SwitchesPre(Tail(frags))

OptionsPre(opts) ==
  IF opts = <<>> THEN <<>> ELSE SwitchesPre(Head(opts)) \o OptionsPre(Tail(opts))

RECURSIVE SplitComma(_)

\* The pieces of s between its commas.
SplitComma(s) ==
  LET C == {i \in 1..Len(s) : s[i] = Comma}
  IN IF C = {} THEN <<s>>
     ELSE LET i == CHOOSE j \in C : \A k \in C : j <= k
          IN <<SubSeq(s, 1, i - 1)>> \o SplitComma(SubSeq(s, i + 1, Len(s)))

\* The input is text{body}text with one group, no nesting, no escape and no
\* range.
FlatGroup ==
  /\ NoRange
  /\ \A i \in 1..Len(input) : input[i] # Backslash
  /\ Cardinality({i \in 1..Len(input) : input[i] = LBrace}) = 1
  /\ Cardinality({i \in 1..Len(input) : input[i] = RBrace}) = 1
  /\ \E p, q \in 1..Len(input) : p < q /\ input[p] = LBrace /\ input[q] = RBrace

\* The alternatives of the body of a flat group, in the order written.
FlatPieces ==
  LET p == CHOOSE i \in 1..Len(input) : input[i] = LBrace
      q == CHOOSE i \in 1..Len(input) : input[i] = RBrace
  IN SplitComma(SubSeq(input, p + 1, q - 1))

\* Prefix, alternative and suffix, one text per alternative.
FlatYields ==
  LET p == CHOOSE i \in 1..Len(input) : input[i] = LBrace
      q == CHOOSE i \in 1..Len(input) : input[i] = RBrace
  IN [k \in 1..Len(FlatPieces) |->
        SubSeq(input, 1, p - 1) \o FlatPieces[k] \o SubSeq(input, q + 1, Len(input))]

\* The three patterns of one_empty_chunk_right, _left and _center give their
\* texts with the empty alternative last, first and in the middle.
EmptyChunkExamples ==
  LET abc == <<Ord.a, Ord.b, Ord.c>>
      abcx == Append(abc, Ord.x)
      abcy == Append(abc, Ord.y)
  IN /\ input = abc \o <<LBrace, Ord.x, Comma, Ord.y, Comma, RBrace>>
          => yielded' = <<abcx, abcy, abc>>
     /\ input = abc \o <<LBrace, Comma, Ord.x, Comma, Ord.y, RBrace>>
          => yielded' = <<abc, abcx, abcy>>
     /\ input = abc \o <<LBrace, Ord.x, Comma, Comma, Ord.y, RBrace>>
          => yielded' = <<abcx, abc, abcy>>

\* The texts of a drained pattern with one flat group are its alternatives
\* in the order written, the empty ones included.
EmptyAlternativesKept ==
  (origin = "from_str" /\ ~Drained /\ Drained') =>
    /\ EmptyChunkExamples
    /\ FlatGroup => yielded' = FlatYields

AtRange ==
  /\ pc = "parse"
  /\ ~escape
  /\ in_switch > 0
  /\ pos + 2 <= Len(input)
  /\ input[pos + 1] = Dot
  /\ input[pos + 2] = Dot

\* Position of the end bound of the range at pos + 1, after one optional
\* backslash.
EndPos == IF pos + 3 <= Len(input) /\ input[pos + 3] = Backslash THEN pos + 4 ELSE pos + 3

\* c is none of the five grammar characters.
Plain(c) == c \notin {LBrace, RBrace, Comma, Dot, Backslash}

\* The input is {X..Y} with plain X and an unescaped Y.
IsRangeXY ==
  /\ Len(input) = 6
  /\ input[1] = LBrace /\ input[3] = Dot /\ input[4] = Dot /\ input[6] = RBrace
  /\ Plain(input[2])
  /\ input[5] # Backslash

\* The texts X, X+1, ..., Y.
Ascending(X, Y) == [i \in 1..(Y - X + 1) |-> <<X + i - 1>>]

\* C9: a range with single ASCII bounds X < Y appends one chunk per character
\* code from X to Y in ascending order, with a SwitchNext between consecutive
\* chunks and none after the last; the pattern {X..Y} is accepted, builds one
\* switch of Y - X + 1 single-character options and yields X, X+1, ..., Y.
C9_RangeExpands ==
  /\ [][(AtRange /\ pc' = "parse") =>
          LET X == x[1]
              Y == input[EndPos]
              n == Len(tokens)
          IN /\ Len(x) = 1 /\ X < Y /\ Y < 128
             /\ pos' = EndPos
             /\ x' = <<>>
             /\ in_switch' = in_switch
             /\ Len(tokens') = n + 2 * (Y - X) + 1
             /\ SubSeq(tokens', 1, n) = tokens
             /\ \A i \in 0..(Y - X) : tokens'[n + 2 * i + 1] = TokChunk(<<X + i>>)
             /\ \A i \in 1..(Y - X) : tokens'[n + 2 * i] = TokSwitchNext]_vars
  /\ [][(origin = "from_str" /\ IsRangeXY /\ input[2] < input[5] /\ input[5] < 128) =>
          LET X == input[2]
              Y == input[5]
          IN /\ pc' \notin {"err", "panic", "overflow"}
             /\ (pc = "build" /\ pc' = "iter") =>
                  /\ Len(fragments') = 1
                  /\ fragments'[1].kind = "Switch"
                  /\ fragments'[1].switch.options =
                       [i \in 1..(Y - X + 1) |-> <<FragChunk(<<X + i - 1>>)>>]
             /\ (pc' = "iter" /\ ret' # "None") => IsPrefix(yielded', Ascending(X, Y))
             /\ (pc' = "iter" /\ ret' = "None") => yielded' = Ascending(X, Y)]_vars

\* The pattern {0..9} has been drained after ten texts.
C9_Witness ==
  /\ Drained
  /\ input = <<LBrace, Ord.zero, Dot, Dot, Ord.nine, RBrace>>
  /\ Len(yielded) = 10

\* The range at pos + 1 has a bound that is not valid: the pending text of the
\* current option is not one single-byte character, the end bound is missing,
\* is not single-byte or is not directly followed by '}', or start >= end.
InvalidBounds ==
  \/ ByteLen(x) # 1
  \/ EndPos > Len(input)
  \/ len_utf8(input[EndPos]) # 1
  \/ ~(EndPos + 1 <= Len(input) /\ input[EndPos + 1] = RBrace)
  \/ x[1] >= input[EndPos]

\* The input is {s..t} with plain s and t.
IsRangeST ==
  /\ Len(input) >= 4
  /\ input[1] = LBrace /\ input[Len(input)] = RBrace
  /\ \E d \in 2..(Len(input) - 2) :
       /\ input[d] = Dot /\ input[d + 1] = Dot
       /\ \A i \in (2..(Len(input) - 1)) \ {d, d + 1} : Plain(input[i])

RangeDots == CHOOSE d \in 2..(Len(input) - 2) : input[d] = Dot /\ input[d + 1] = Dot
RangeS == SubSeq(input, 2, RangeDots - 1)
RangeT == SubSeq(input, RangeDots + 2, Len(input) - 1)

\* s and t are one single-byte character each and s < t.
ValidST ==
  /\ Len(RangeS) = 1 /\ len_utf8(RangeS[1]) = 1
  /\ Len(RangeT) = 1 /\ len_utf8(RangeT[1]) = 1
  /\ RangeS[1] < RangeT[1]

\* C10: inside a group, a ".." whose bounds are not valid is rejected: the
\* step that reads it ends the parse with an error, nothing runs after an
\* error and no pattern is ever produced; a pattern {s..t} whose s or t is not
\* exactly one single-byte character, or with s >= t, never gets past the
\* tokenizer.
C10_InvalidRangeRejected ==
  /\ [][(AtRange /\ InvalidBounds) => (pc' = "err" /\ pattern' = NoPattern)]_vars
  /\ [][pc # "err"]_vars
  /\ [][(origin = "from_str" /\ IsRangeST /\ ~ValidST) =>
          /\ pc' \in {"parse", "err"}
          /\ pattern' = NoPattern
          /\ (pos + 1 = RangeDots) => pc' = "err"]_vars

\* The pattern {s..s} with equal single-byte bounds has been rejected.
C10_Witness ==
  /\ pc = "err"
  /\ err = "start needs to be smaller than end"
  /\ pattern = NoPattern
  /\ IsRangeST
  /\ Len(RangeS) = 1
  /\ RangeS = RangeT

(***************************************************************************)
(* Ranges among other content.                                             *)
(***************************************************************************)
\* The group the tokenizer is in has content besides the range at pos + 1:
\* something was pushed since its SwitchOpen (an alternative or a nested
\* group before the range), or the end bound is not directly followed by '}'.
RangeMixed ==
  \/ tokens = <<>>
  \/ tokens[Len(tokens)] # TokSwitchOpen
  \/ ~(EndPos + 1 <= Len(input) /\ input[EndPos + 1] = RBrace)

\* C11: a range must be the sole content of its group: reading a ".." in a
\* group that holds anything else ends the parse with an error.
C11_RangeSoleContent ==
  [][(AtRange /\ RangeMixed) => pc' = "err"]_vars

(***************************************************************************)
(* Brace balance and the depth counter.                                    *)
(***************************************************************************)
\* SwitchOpen tokens minus SwitchClose tokens: the groups toks leaves open.
TokenDepth(toks) ==
  Cardinality({k \in 1..Len(toks) : toks[k] = TokSwitchOpen})
    - Cardinality({k \in 1..Len(toks) : toks[k] = TokSwitchClose})

\* Opens and closes match and no prefix closes more than it opens.
Balanced(toks) ==
  /\ TokenDepth(toks) = 0
  /\ \A k \in 1..Len(toks) : TokenDepth(SubSeq(toks, 1, k)) >= 0

\* C12: brace balance is enforced: reading an unescaped '}' with no group
\* open ends the parse with an error, so does the end of the input with a
\* group still open, and when the tokenizer succeeds its SwitchOpen and
\* SwitchClose tokens are balanced.
C12_BraceBalance ==
  /\ [][(InLoop /\ ~escape /\ Cur = RBrace /\ TokenDepth(tokens) = 0)
          => pc' = "err"]_vars
  /\ [][(pc = "parse" /\ pos = Len(input) /\ TokenDepth(tokens) > 0)
          => pc' = "err"]_vars
  /\ [][(pc = "parse" /\ pc' = "build") => Balanced(tokens')]_vars

\* The input has no ',', '.' or backslash, and its braces are balanced.
BalancedBraces ==
  /\ \A i \in 1..Len(input) : input[i] \notin {Comma, Dot, Backslash}
  /\ DepthBefore(Len(input) + 1) = 0
  /\ \A i \in 1..Len(input) : DepthBefore(i) >= 0

\* C19: groups nest to any depth: the depth counter never overflows, it
\* equals the number of groups open, and a pattern of balanced braces and
\* plain text is never rejected.
C19_DepthCounter ==
  /\ pc # "overflow"
  /\ pc = "parse" => in_switch = TokenDepth(tokens)
  /\ (origin = "from_str" /\ BalancedBraces) => pc # "err"

(***************************************************************************)
(* End of input inside an escape sequence or a range.                      *)
(***************************************************************************)
\* The last character of the input is an unescaped backslash.
EndsInEscape == Len(input) > 0 /\ Unescaped(Len(input), Backslash)

\* C13: an input that ends in the middle of an escape sequence, or in the
\* middle of a range with its end bound missing, fails to parse: the step
\* that meets the end of the input returns an error.
C13_UnexpectedEnd ==
  /\ [][(pc = "parse" /\ pos = Len(input) /\ EndsInEscape) => pc' = "err"]_vars
  /\ [][(AtRange /\ EndPos > Len(input)) => pc' = "err"]_vars

(***************************************************************************)
(* Commas outside groups.                                                  *)
(***************************************************************************)
\* C14: a ',' separates only while a group is open: every SwitchNext the
\* tokenizer pushes has a group open around it, and a step that takes an
\* unescaped ',' with no group left open appends it to the pending literal
\* as text.
C14_CommaOnlyInGroup ==
  /\ [][\A k \in 1..Len(tokens') :
          tokens'[k] = TokSwitchNext => TokenDepth(SubSeq(tokens', 1, k)) > 0]_vars
  /\ [][(InLoop /\ ~escape /\ Cur = Comma /\ TokenDepth(tokens) = 0) =>
          (x' = Append(x, Comma) /\ tokens' = tokens)]_vars

(***************************************************************************)
(* The tree a pattern string denotes, put together by hand from the input  *)
(* with Pattern::from, Switch::from and the two Fragment constructors.     *)
(***************************************************************************)
RECURSIVE HandItems(_, _)
RECURSIVE HandOptions(_, _)

\* The separating commas of the group around position i among i..j.
HandCommas(i, j) ==
  {c \in i..j : input[c] = Comma /\ DepthBefore(c) = DepthBefore(i)}

\* The fragments of one alternative input[i..j]; an empty alternative is one
\* empty chunk.
HandOption(i, j) == IF i > j THEN <<FragChunk(<<>>)>> ELSE HandItems(i, j)

\* The alternatives of the group body input[i..j], split at its commas.
HandOptions(i, j) ==
  IF HandCommas(i, j) = {}
  THEN <<HandOption(i, j)>>
  ELSE LET c == CHOOSE c \in HandCommas(i, j) : \A d \in HandCommas(i, j) : c <= d
       IN <<HandOption(i, c - 1)>> \o HandOptions(c + 1, j)

\* The fragments of input[i..j], which holds no separating comma: runs of
\* text as chunks, groups as switches.
HandItems(i, j) ==
  IF i > j THEN <<>>
  ELSE IF input[i] = LBrace
  THEN LET q == CloseOf(i)
       IN <<FragSwitch(SwitchFrom(IF q = i + 1 THEN <<>> ELSE HandOptions(i + 1, q - 1)))>>
            \o HandItems(q + 1, j)
  ELSE LET B == {k \in i..j : input[k] = LBrace}
           e == IF B = {} THEN j ELSE (CHOOSE k \in B : \A l \in B : k <= l) - 1
       IN <<FragChunk(SubSeq(input, i, e))>> \o HandItems(e + 1, j)

\* The input has no escape and no range, its braces are balanced, and a
\* hand-made tree of it exists.
HasHandTree ==
  /\ NoRange
  /\ \A i \in 1..Len(input) : input[i] # Backslash
  /\ DepthBefore(Len(input) + 1) = 0
  /\ \A i \in 1..Len(input) : DepthBefore(i) >= 0

\* The tree of prefix_nested_middle, "a{b,c{x,y},d}", as the test writes it.
PrefixNestedMiddle ==
  <<FragChunk(<<Ord.a>>),
    FragSwitch(SwitchFrom(<<
      <<FragChunk(<<Ord.b>>)>>,
      <<FragChunk(<<Ord.c>>),
        FragSwitch(SwitchFrom(<< <<FragChunk(<<Ord.x>>)>>, <<FragChunk(<<Ord.y>>)>> >>))>>,
      <<FragChunk(<<Ord.d>>)>> >>))>>

\* C15: the pattern from_str returns is the pattern Pattern::from makes of
\* the hand-constructed tree of the same string: same fragments in the same
\* order and nesting, first set and done clear, and every switch with read
\* cursor 0 and write cursor 0 whatever the number of its separators.
C15_SameAsHandTree ==
  [][(pc = "build" /\ pc' = "iter" /\ HasHandTree) =>
       /\ pattern' = PatternFrom(HandItems(1, Len(input)))
       /\ ~pattern'.done
       /\ \A k \in 1..Len(SwitchesPre(pattern'.fragments)) :
            /\ SwitchesPre(pattern'.fragments)[k].ctr = 0
            /\ SwitchesPre(pattern'.fragments)[k].write_cursor = 0
       /\ input = <<Ord.a, LBrace, Ord.b, Comma, Ord.c, LBrace, Ord.x, Comma, Ord.y,
                    RBrace, Comma, Ord.d, RBrace>>
            => pattern' = PatternFrom(PrefixNestedMiddle)]_vars

\* from_str has returned the pattern of "a{b,c{x,y},d}", a group of two
\* separators around a group of one.
C15_Witness ==
  /\ pc = "iter"
  /\ origin = "from_str"
  /\ pattern = PatternFrom(PrefixNestedMiddle)
  /\ ret = ""

HasEmptySwitch(frags) ==
  \E k \in 1..Len(frags) : frags[k].kind = "Switch" /\ frags[k].switch.options = <<>>

\* C17: "{}" is accepted and builds a switch without options; the pattern
\* yields the empty text exactly once and then None; a switch without options
\* counts 0 and makes count() of a pattern it is a fragment of 0.
C17_EmptyGroup ==
  /\ [][(origin = "from_str" /\ input = <<LBrace, RBrace>>) =>
          /\ pc' \notin {"err", "panic", "overflow"}
          /\ pc' = "iter" =>
               /\ pattern'.fragments # <<>>
               /\ Len(SwitchesPre(fragments')) = 1
               /\ SwitchesPre(fragments')[1].options = <<>>
               /\ PatternCount(PatternFrom(fragments')) = 0
          /\ ret' = "Some" => yielded' = << <<>> >>
          /\ ret' = "None" => yielded' = << <<>> >>]_vars
  /\ [][(pc' = "iter" /\ HasEmptySwitch(fragments')) =>
          /\ PatternCount(PatternFrom(fragments')) = 0
          /\ \A k \in 1..Len(fragments') :
               (fragments'[k].kind = "Switch" /\ fragments'[k].switch.options = <<>>)
                 => SwitchCount(fragments'[k].switch) = 0]_vars

\* The pattern "{}" has been drained after one empty text.
C17_Witness ==
  /\ Drained
  /\ origin = "from_str"
  /\ input = <<LBrace, RBrace>>
  /\ yielded = << <<>> >>
  /\ PatternCount(Fresh) = 0

(***************************************************************************)
(* permutate and its sink.                                                 *)
(***************************************************************************)
\* permutate has stopped: it returned Ok or the error of the sink.
Stopped == pc \in {"finished", "failed"}

\* C18: permutate hands the combinations to the sink in enumeration order,
\* one per write, each write being one combination and one newline with
\* nothing of an earlier combination; it goes on after a write only when the
\* sink answered Unsolved; after the first KnownSolution, UnknownSolution or
\* error it writes nothing more and calls next no more.
C18_WritesFollowSink ==
  /\ [][(origin = "main" /\ (pc' = "permutate" \/ Stopped')) =>
          /\ Len(written') = Len(yielded')
          /\ \A i \in 1..Len(written') : written'[i] = Append(yielded'[i], Newline)
          /\ IsPrefix(yielded', ExpandFrags(fragments', << <<>> >>))
          /\ (ret' = "None") => yielded' = ExpandFrags(fragments', << <<>> >>)]_vars
  /\ [][(written' # written) =>
          /\ pc = "permutate"
          /\ status \in {"", "Unsolved"}
          /\ Len(written') = Len(written) + 1
          /\ SubSeq(written', 1, Len(written)) = written
          /\ status' \in SinkAnswers
          /\ (pc' = "permutate") <=> (status' = "Unsolved")
          /\ (status' # "Unsolved") => Stopped']_vars
  /\ [][(status \in {"KnownSolution", "UnknownSolution", "Err"} \/ Stopped) =>
          (written' = written /\ pattern' = pattern /\ yielded' = yielded)]_vars
  /\ [][~Stopped]_vars

\* permutate has stopped on a KnownSolution for its third write, after two
\* writes answered Unsolved, with combinations left.
C18_Witness ==
  /\ pc = "finished"
  /\ status = "KnownSolution"
  /\ Len(written) = 3
  /\ written[1] # written[2]
  /\ ~pattern.done

(***************************************************************************)
(* Cursors.                                                                *)
(***************************************************************************)
\* Every switch of the tree, nested ones included, has a cursor that selects
\* one of its options, or has no option, cursor 0 and a bump that carries and
\* leaves the cursor at 0.
CursorsValid(frags) ==
  \A k \in 1..Len(SwitchesPre(frags)) :
    LET sw == SwitchesPre(frags)[k]
    IN IF sw.options # <<>>
       THEN sw.ctr \in 0..(Len(sw.options) - 1)
       ELSE /\ sw.ctr = 0
            /\ SwitchBump(sw).carry
            /\ SwitchBump(sw).switch.ctr = 0

\* The pattern is being enumerated, by a caller of next or by permutate.
Enumerating == pc \in {"iter", "permutate", "finished", "failed"}

\* C20: in every state of an enumeration the cursors of all switches are
\* valid, and a further bump from that state leaves them valid.
C20_CursorsValid ==
  Enumerating =>
    /\ CursorsValid(pattern.fragments)
    /\ CursorsValid(PatternBump(pattern).pattern.fragments)

\* An enumeration has moved a cursor off its first option, in a tree that
\* also holds a switch without options.
C20_Witness ==
  /\ Enumerating
  /\ Len(yielded) >= 2
  /\ \E k \in 1..Len(SwitchesPre(pattern.fragments)) :
       SwitchesPre(pattern.fragments)[k].options = <<>>
  /\ \E k \in 1..Len(SwitchesPre(pattern.fragments)) :
       SwitchesPre(pattern.fragments)[k].ctr > 0

(***************************************************************************)
(* A comma directly after the '}' of a nested group.                       *)
(***************************************************************************)
\* The '}' that close a nested group and are directly followed by ','.
NestedCloseCommas ==
  {q \in 1..(Len(input) - 1) :
     Unescaped(q, RBrace) /\ DepthBefore(q) >= 2 /\ input[q + 1] = Comma}

\* The '{' of the group that is d levels up from the '}' at q: 1 for the group
\* the '}' closes, 2 for the group around it.
OpenOf(q, d) ==
  LET P == {p \in 1..(q - 1) :
              Unescaped(p, LBrace) /\ DepthBefore(p) = DepthBefore(q) - d}
  IN CHOOSE p \in P : \A r \in P : r <= p

\* The switch, in the tree frags, of the group opened at p.
SwitchOf(p, frags) ==
  SwitchesPre(frags)[Cardinality({i \in GroupOpens : i <= p})]

\* Number of the option of the group opened at p that the position q lies in.
OptionAt(p, q) ==
  1 + Cardinality({i \in (p + 1)..(q - 1) :
                     Unescaped(i, Comma) /\ DepthBefore(i) = DepthBefore(p) + 1})

\* Number of commas in a row directly after position q.
CommaRun(q) ==
  LET M == {m \in 0..(Len(input) - q) : \A i \in (q + 1)..(q + m) : input[i] = Comma}
  IN CHOOSE m \in M : \A n \in M : n <= m

\* The option that ends with the nested group closed at q ends with that
\* group's switch; the commas after it each start one option, the ones between
\* two commas hold one empty chunk, and so does the last one if '}' follows,
\* which is then the last option of the enclosing group.
CommaAfterNested(q, frags) ==
  LET outer == SwitchOf(OpenOf(q, 2), frags)
      inner == SwitchOf(OpenOf(q, 1), frags)
      j == OptionAt(OpenOf(q, 2), q)
      m == CommaRun(q)
      closed == q + m + 1 <= Len(input) /\ input[q + m + 1] = RBrace
      empty == <<FragChunk(<<>>)>>
  IN /\ Len(outer.options) >= j + m
     /\ outer.options[j] # <<>>
     /\ outer.options[j][Len(outer.options[j])] = FragSwitch(inner)
     /\ \A k \in 1..(m - 1) : outer.options[j + k] = empty
     /\ closed => (outer.options[j + m] = empty /\ Len(outer.options) = j + m)
     /\ ~closed => outer.options[j + m] # <<>> /\ outer.options[j + m][1] # FragChunk(<<>>)

\* The two patterns of optional_prefix and optional_prefix2 and their texts.
OptionalPrefixExamples ==
  LET head == <<LBrace, LBrace, Ord.a, Dot, Dot, Ord.b, RBrace, Comma>>
      ax == <<Ord.a, Ord.x>>
      bx == <<Ord.b, Ord.x>>
      sx == <<Ord.x>>
  IN /\ input = head \o <<RBrace, Ord.x>> => yielded' = <<ax, bx, sx>>
     /\ input = head \o <<Comma, RBrace, Ord.x>> => yielded' = <<ax, bx, sx, sx>>

\* C21: in every pattern that is built, a comma directly after the '}' of a
\* nested group separates the options of the enclosing group and adds no
\* empty chunk to the option that ends with the nested group; if '}' directly
\* follows the comma one option holding one empty chunk is added, and each
\* further comma adds one more such option ("{{a..b},}x" yields ax, bx, x;
\* "{{a..b},,}x" has three options).
C21_CommaAfterNestedGroup ==
  /\ [][(pc = "build" /\ pc' \in {"iter", "permutate"}) =>
          \A q \in NestedCloseCommas : CommaAfterNested(q, fragments')]_vars
  /\ [][(origin = "from_str" /\ ~Drained /\ Drained') => OptionalPrefixExamples]_vars

\* The pattern "{{a..b},,}x" has been built with three options in its outer
\* group and drained.
C21_Witness ==
  /\ Drained
  /\ input = <<LBrace, LBrace, Ord.a, Dot, Dot, Ord.b, RBrace, Comma, Comma, RBrace, Ord.x>>
  /\ NestedCloseCommas = {7}
  /\ CommaRun(7) = 2
  /\ Len(SwitchOf(1, fragments).options) = 3
  /\ Len(yielded) = 4

(***************************************************************************)
(* What enumeration leaves alone.                                          *)
(***************************************************************************)
RECURSIVE ZeroFrags(_)
RECURSIVE ZeroOptions(_)
RECURSIVE RestUntouched(_, _)

\* A sequence of fragments with every read cursor put to 0: what is left is
\* the number and order of the fragments, the options of every switch, the
\* text of every chunk and the write cursors.
ZeroFrags(frags) ==
  IF frags = <<>> THEN <<>>
  ELSE LET f == Head(frags)
       IN <<IF f.kind = "Chunk"
            THEN f
            ELSE FragSwitch([f.switch EXCEPT !.ctr = 0,
                                             !.options = ZeroOptions(@)])>>
            \o ZeroFrags(Tail(frags))

ZeroOptions(opts) ==
  IF opts = <<>> THEN <<>> ELSE <<ZeroFrags(Head(opts))>> \o ZeroOptions(Tail(opts))

\* Positions of the switches of a sequence that do not show their last
\* combination: the ones whose bump reports no carry.
NoCarryAt(frags) ==
  {k \in 1..Len(frags) : frags[k].kind = "Switch" /\ ~SwitchAtLast(frags[k].switch)}

\* One bump of a sequence: the fragments after the first switch that reports
\* no carry are as before, and so it is inside the selected option of every
\* switch the bump has reached.
RestUntouched(before, after) ==
  LET K == NoCarryAt(before)
      reached == IF K = {} THEN Len(before) ELSE CHOOSE k \in K : \A n \in K : k <= n
  IN /\ Len(after) = Len(before)
     /\ \A i \in (reached + 1)..Len(before) : after[i] = before[i]
     /\ \A i \in 1..reached :
          (before[i].kind = "Switch" /\ before[i].switch.ctr < Len(before[i].switch.options))
          => RestUntouched(before[i].switch.options[before[i].switch.ctr + 1],
                           after[i].switch.options[before[i].switch.ctr + 1])

\* C22: a call of next, by a caller of the library or by permutate, and a
\* call of bump from any state those calls reach, leaves the fragment tree
\* as it was built except for read cursors (number and order of fragments,
\* options of every switch, text of every chunk, write cursors) and leaves
\* the field first; only read cursors and done change.  A bump leaves every
\* fragment after the first switch that reports no carry unchanged, in the
\* top-level sequence and in every selected option it reaches.
C22_OnlyCursorsChange ==
  [][(pc \in {"iter", "permutate"}) =>
       /\ ZeroFrags(pattern'.fragments) = fragments'
       /\ ZeroFrags(pattern.fragments) = fragments
       /\ pattern'.first = pattern.first
       /\ [pattern' EXCEPT !.fragments = fragments', !.done = FALSE] = Fresh
       /\ (pattern' # pattern) => RestUntouched(pattern.fragments, pattern'.fragments)
       /\ LET b == PatternBump(pattern).pattern
          IN /\ ZeroFrags(b.fragments) = fragments
             /\ [b EXCEPT !.fragments = pattern.fragments] = pattern
             /\ RestUntouched(pattern.fragments, b.fragments)]_vars

\* An enumeration of a tree with two top-level switches and a nested one has
\* moved a cursor while a later switch with several options stayed at 0.
C22_Witness ==
  /\ Enumerating
  /\ Len(yielded) >= 2
  /\ pattern.fragments # fragments
  /\ Len(SwitchesPre(fragments)) >= 3
  /\ \E i, j \in 1..Len(pattern.fragments) :
       /\ i < j
       /\ pattern.fragments[i].kind = "Switch"
       /\ pattern.fragments[j].kind = "Switch"
       /\ pattern.fragments[i] # fragments[i]
       /\ pattern.fragments[j] = fragments[j]
       /\ Len(fragments[j].switch.options) >= 2

(***************************************************************************)
(* The count of a tree as a number, computed without a word size.          *)
(***************************************************************************)
RECURSIVE ProductOfFrags(_)
RECURSIVE SumOfOptions(_)

\* The product, over the fragments, of 1 for a chunk and of the sum over its
\* options for a switch; 1 for no fragment.
ProductOfFrags(frags) ==
  IF frags = <<>>
  THEN BigOfNat(1)
  ELSE BigMul(IF Head(frags).kind = "Chunk"
              THEN BigOfNat(1)
              ELSE SumOfOptions(Head(frags).switch.options),
              ProductOfFrags(Tail(frags)))

\* The sum, over the options, of the product of the option's fragments.
SumOfOptions(options) ==
  IF options = <<>>
  THEN BigOfNat(0)
  ELSE BigAdd(ProductOfFrags(Head(options)), SumOfOptions(Tail(options)))

\* The number fits in a usize.
FitsUsize(n) == Len(n) <= WordLimbs

\* A pattern is built, in any state of an enumeration or before main counts.
Built == pc \in {"iter", "permutate", "finished", "failed", "count", "printed"}

\* A call of count changes neither the pattern (cursors, done) nor the
\* caller's buffer, and nothing is yielded by it.
CountChangesNothing ==
  counted' # counted => UNCHANGED <<pattern, out, ret, yielded, fragments>>

\* Whatever the cursors, count returns the sum of products of the tree, and
\* it returns: it does not panic.
CountIsSumOfProducts ==
  /\ pc' # "count_overflow"
  /\ Built' =>
       /\ PatternCountUsize(pattern') = [value |-> ProductOfFrags(fragments'), overflow |-> FALSE]
       /\ counted' # <<>> => counted' = <<ProductOfFrags(fragments')>>
       /\ origin' # "count" => BigOfNat(PatternCount(pattern')) = ProductOfFrags(fragments')

\* With calls of count between the calls of next, next yields the reference
\* expansion as it does without them.
CountKeepsSequence ==
  (pc' = "iter" /\ counted' # <<>>) =>
    LET E == ExpandFrags(fragments', << <<>> >>)
    IN /\ IsPrefix(yielded', E)
       /\ ret' = "None" => yielded' = E

\* C23: count() changes no cursor and not the done flag, returns the same
\* value before, during and after an enumeration whatever the cursors are,
\* and calls of it between calls of next do not change what next yields; the
\* value is the product over the top-level fragments of 1 for a chunk and,
\* for a switch, the sum over its options of the product of the option's
\* fragment counts, 1 for a pattern without fragments.
C23_CountIsPure ==
  [][CountChangesNothing /\ CountIsSumOfProducts /\ CountKeepsSequence]_vars

\* C24: whenever the sum of products of a pattern fits in a usize, no product
\* and no sum in count() overflows, a later factor 0 included: count() does
\* not panic and returns the exact value.
C24_NoIntermediateOverflow ==
  [][/\ pc' = "count_overflow" => ~FitsUsize(ProductOfFrags(fragments'))
     /\ (Built' /\ FitsUsize(ProductOfFrags(fragments'))) =>
          /\ PatternCountUsize(pattern') = [value |-> ProductOfFrags(fragments'), overflow |-> FALSE]
          /\ counted' # <<>> => counted' = <<ProductOfFrags(fragments')>>]_vars

(***************************************************************************)
(* Options that are not selected.                                          *)
(***************************************************************************)
RECURSIVE UnselectedZero(_)

\* In every switch of the sequence, and of every option below it, the
\* switches of the options the cursor does not select have all cursors 0.
UnselectedZero(frags) ==
  \A sw \in SwitchesOf(frags) :
    \A k \in 1..Len(sw.options) :
      /\ k # sw.ctr + 1 => \A n \in SwitchesOf(sw.options[k]) : SwitchZero(n)
      /\ UnselectedZero(sw.options[k])

\* C25: between the calls of next every switch inside an option that its
\* parent does not select has cursor 0, with the switches below it; when
\* bump reports exhaustion (next sets done, or a bump from the state carries)
\* every cursor of the tree is 0: the tree is the tree as it was built,
\* except for done.
C25_UnselectedAtZero ==
  Enumerating =>
    /\ UnselectedZero(pattern.fragments)
    /\ pattern.done => pattern = [Fresh EXCEPT !.done = TRUE]
    /\ LET b == PatternBump(pattern)
       IN /\ UnselectedZero(b.pattern.fragments)
          /\ b.carry => b.pattern.fragments = fragments

\* An enumeration has left the first option of a top-level switch, an option
\* that holds a switch with several options, and is not over.
C25_Witness ==
  /\ Enumerating
  /\ ~pattern.done
  /\ \E sw \in SwitchesOf(pattern.fragments) :
       /\ sw.ctr > 0
       /\ \E n \in SwitchesOf(sw.options[1]) : Len(n.options) >= 2

(***************************************************************************)
(* The write cursor while from_str builds the tree.                        *)
(***************************************************************************)
\* The switch the next push goes to, as a sequence of at most one switch:
\* the last of the stack for a chunk, the one below it for a closed switch.
PushTarget ==
  IF ~InBuild THEN <<>>
  ELSE IF Tok.type = "Chunk" /\ switches # <<>> THEN <<switches[Len(switches)]>>
  ELSE IF Tok.type = "SwitchClose" /\ Len(switches) >= 2 THEN <<switches[Len(switches) - 1]>>
  ELSE <<>>

\* Every option of every switch of the sequence holds a fragment.
OptionsFilled(frags) ==
  \A k \in 1..Len(SwitchesPre(frags)) :
    \A i \in 1..Len(SwitchesPre(frags)[k].options) :
      SwitchesPre(frags)[k].options[i] # <<>>

\* C26: while from_str builds a tree from the tokens of parse, every
\* Switch::push finds write_cursor <= options.len(), so the option index is in
\* range once at most one slot is added and the push does not panic; in the
\* finished tree every option of every switch holds at least one fragment.
C26_WriteCursorInRange ==
  [][/\ \A k \in 1..Len(PushTarget) :
          /\ PushTarget[k].write_cursor <= Len(PushTarget[k].options)
          /\ pc' # "panic"
     /\ (pc = "build" /\ pc' \in {"iter", "permutate", "count"}) => OptionsFilled(fragments')]_vars

\* from_str is about to push an empty chunk into a new third or later option
\* of a switch.
C26_Witness ==
  /\ InBuild
  /\ Tok = TokChunk(<<>>)
  /\ PushTarget # <<>>
  /\ PushTarget[1].write_cursor >= 2
  /\ PushTarget[1].write_cursor = Len(PushTarget[1].options)

(***************************************************************************)
(* The calls permutate makes on its Feedback.                              *)
(***************************************************************************)
\* n calls of inc.
Incs(n) == [i \in 1..n |-> [call |-> "inc", password |-> <<>>]]

\* One call of found with the bytes of the last write, one call of finish.
FoundLastWrite == [call |-> "found", password |-> written[Len(written)]]
Finish == [call |-> "finish", password |-> <<>>]

\* The calls that are due once the writes so far have been answered, the last
\* one with `status`, and next has returned `ret`.
FeedbackDue ==
  CASE pc = "permutate" -> Incs(Len(written))
    [] pc = "failed" -> Incs(Len(written) - 1)
    [] pc = "finished" /\ ret = "None" -> Append(Incs(Len(written)), Finish)
    [] pc = "finished" /\ ret # "None" /\ status = "KnownSolution" ->
         Incs(Len(written) - 1) \o <<FoundLastWrite, Finish>>
    [] pc = "finished" /\ ret # "None" /\ status # "KnownSolution" ->
         Append(Incs(Len(written) - 1), Finish)

\* How permutate has ended agrees with the last answer of the sink.
EndFollowsSink ==
  /\ pc = "permutate" => status \in {"", "Unsolved"}
  /\ pc = "failed" => status = "Err"
  /\ pc = "finished" =>
       IF ret = "None" THEN status \in {"", "Unsolved"}
       ELSE status \in {"KnownSolution", "UnknownSolution"}

\* C27: in permutate inc is called once after each write answered Unsolved
\* and not for the write that stops the loop; found is called at most once,
\* only for a KnownSolution and with the bytes of the write that was
\* answered; finish is called once, last, when the loop ends by exhaustion,
\* KnownSolution or UnknownSolution, and not when the sink returns an error.
C27_FeedbackFollowsSink ==
  (origin = "main" /\ (pc = "permutate" \/ Stopped)) =>
    /\ EndFollowsSink
    /\ feedback = FeedbackDue

\* permutate has ended on a KnownSolution for its second write: one inc, one
\* found with the bytes of that write, one finish.
C27_Witness ==
  /\ origin = "main"
  /\ pc = "finished"
  /\ status = "KnownSolution"
  /\ Len(written) = 2
  /\ feedback = Incs(1) \o <<FoundLastWrite, Finish>>
  /\ written[2] # <<Newline>>

=============================================================================
